---- MODULE Spec2Model ----
(***************************************************************************)
(* The HTTP gateway of gateway/src/main.rs: one inbound request is routed  *)
(* to a handler, the handler builds and sends at most one request to the   *)
(* backend, the backend (the environment) answers with a transport error   *)
(* or a response, and the handler translates the result into the response  *)
(* given to the caller.                                                    *)
(*                                                                         *)
(* Texts that are only concatenated (URLs, the diagnostic body) are        *)
(* strings.  A body is a sequence of tokens, so that the JSON extractor    *)
(* and serializer of /api/login can be modelled by what they do: a token   *)
(* is a brace, a run of whitespace, an object member "key":value (commas   *)
(* between consecutive members are implied) or a piece of raw text.        *)
(* An Option<T> is a sequence of length 0 (None) or 1 (Some).              *)
(***************************************************************************)
EXTENDS Integers, Sequences, FiniteSets, TLC

VARIABLES
    pc,       \* "idle", "received", "awaiting", "replied", "done"
    inbound,  \* Option: the inbound request being handled
    handler,  \* Option: the handler the router chose for it
    sent,     \* the requests sent to the backend for it, in order
    res,      \* Option: the result of send(), with the result of bytes()
    resp      \* Option: the response given to the caller

vars == <<pc, inbound, handler, sent, res, resp>>

\* ------------------------------------------------------------------ bounds

\* the most members an inbound JSON object body has
MaxMembers == 2
\* the most Set-Cookie headers a backend response has
MaxCookies == 2

\* ------------------------------------------------------------ configuration

backend_base == "http://127.0.0.1:8009"

\* --------------------------------------------------------------- body text

Punct(s) == [tok |-> "punct", key |-> "", val |-> s]
Ws == [tok |-> "ws", key |-> "", val |-> " "]
Raw(s) == [tok |-> "raw", key |-> "", val |-> s]
\* the member "k":"v"
Str(k, v) == [tok |-> "str", key |-> k, val |-> v]
\* the member "k":v, v a number
Num(k, v) == [tok |-> "num", key |-> k, val |-> v]

IsMember(t) == t.tok \in {"str", "num"}

\* Bytes::new(), Bytes::from_static(b"")
EmptyBytes == <<>>
\* Bytes::from_static(b"{}")
EmptyObjectBytes == <<Punct("{"), Punct("}")>>

\* ------------------------------------------------------------- header maps

\* A HeaderMap is a sequence of <<name, value>> pairs; names are lower case,
\* as the http crate stores them.
NoHeaders == <<>>

HeaderGet(h, n) ==
    LET idx == {i \in 1..Len(h) : h[i][1] = n}
    IN  IF idx = {} THEN <<>>
        ELSE <<h[CHOOSE i \in idx : \A j \in idx : i <= j][2]>>

HeaderGetAll(h, n) ==
    LET Named(p) == p[1] = n
        sel == SelectSeq(h, Named)
    IN  [i \in 1..Len(sel) |-> sel[i][2]]

HeaderInsert(h, n, v) ==
    LET Other(p) == p[1] # n
    IN  Append(SelectSeq(h, Other), <<n, v>>)

HeaderAppend(h, n, v) == Append(h, <<n, v>>)

HeaderNamesOf(h) == {h[i][1] : i \in 1..Len(h)}

\* ------------------------------------------------------------------ router

\* Router::new().route(...): the handler of a method and path.  A path that
\* has a route of its own is never handed to the wildcard route: with another
\* method it is answered 405 by the router.
Route(method, path) ==
    CASE path = "/health" ->
            IF method = "GET" THEN "health" ELSE "method_not_allowed"
      [] path = "/api/login" ->
            IF method = "POST" THEN "api_login" ELSE "method_not_allowed"
      [] path = "/api/analysis/market" ->
            IF method = "POST" THEN "api_analysis_market" ELSE "method_not_allowed"
      [] path = "/" ->
            IF method = "GET" THEN "proxy_root_get" ELSE "method_not_allowed"
      [] OTHER -> "proxy_all"

\* --------------------------------------------------------- the JSON of login

\* struct LoginPayload { email: String, password: String } with the derived
\* Deserialize: whitespace is skipped, the text must be one object, unknown
\* members are ignored, and each of email and password must occur exactly
\* once with a string value.  A syntax error is answered 400, a data error 422.
DeserializeLoginPayload(body) ==
    LET NotWs(t) == t.tok # "ws"
        t == SelectSeq(body, NotWs)
        syntax == /\ Len(t) >= 2
                  /\ t[1] = Punct("{")
                  /\ t[Len(t)] = Punct("}")
                  /\ \A i \in 2..(Len(t) - 1) : IsMember(t[i])
        At(k) == {i \in 2..(Len(t) - 1) : t[i].key = k}
        Field(k) == t[CHOOSE i \in At(k) : TRUE]
        data == \A k \in {"email", "password"} :
                    /\ Cardinality(At(k)) = 1
                    /\ Field(k).tok = "str"
    IN  IF ~syntax THEN [ok |-> FALSE, status |-> 400]
        ELSE IF ~data THEN [ok |-> FALSE, status |-> 422]
        ELSE [ok |-> TRUE,
              payload |-> [email |-> Field("email").val,
                           password |-> Field("password").val]]

\* The derived Serialize, as serde_json writes it: the two fields in the
\* order of the struct, no whitespace.
SerializeLoginPayload(payload) ==
    <<Punct("{"), Str("email", payload.email),
      Str("password", payload.password), Punct("}")>>

\* an extractor that reads the body whatever the content-type says
JsonExtractAnyContentType(headers, body) == DeserializeLoginPayload(body)

\* The Json<LoginPayload> extractor: the request must say
\* content-type: application/json (else 415), and its body must deserialize.
JsonExtract(headers, body) ==
    IF HeaderGet(headers, "content-type") # <<"application/json">>
    THEN [ok |-> FALSE, status |-> 415]
    ELSE DeserializeLoginPayload(body)

\* ------------------------------------------------------ the request builder

\* client.get(url), client.post(url), ..., client.request(method, url)
ClientRequest(method, url) ==
    [method |-> method, url |-> url, headers |-> NoHeaders, body |-> <<>>]

\* RequestBuilder::header
WithHeader(req, n, v) == [req EXCEPT !.headers = HeaderAppend(@, n, v)]

\* RequestBuilder::body
WithBody(req, body) == [req EXCEPT !.body = <<body>>]

\* RequestBuilder::json: the serialized value as the body, and
\* content-type: application/json unless the request has a content-type.
WithJson(req, payload) ==
    LET r == WithBody(req, SerializeLoginPayload(payload))
    IN  IF HeaderGet(req.headers, "content-type") = <<>>
        THEN WithHeader(r, "content-type", "application/json")
        ELSE r

\* if let Some(v) = headers.get(n) { req = req.header(n, v); }
ForwardIfPresent(req, headers, n) ==
    LET v == HeaderGet(headers, n)
    IN  IF v = <<>> THEN req ELSE WithHeader(req, n, v[1])

\* a builder that copies every inbound header
ForwardHeadersAll(req, headers) ==
    [req EXCEPT !.headers = @ \o headers]

\* proxy_all: the four headers passed through
ForwardHeaders(req, headers) ==
    ForwardIfPresent(
        ForwardIfPresent(
            ForwardIfPresent(
                ForwardIfPresent(req, headers, "authorization"),
                headers, "content-type"),
            headers, "cookie"),
        headers, "x-csrf-token")

\* a URL that loses the query
ProxyUrlNoQuery(path, query) == backend_base \o path

\* proxy_all: format!("{}{}", backend_base, uri.path()), then '?' and the
\* query when the URI has one
ProxyUrl(path, query) ==
    LET url == backend_base \o path
    IN  IF query = <<>> THEN url ELSE (url \o "?") \o query[1]

\* a builder that attaches every non-empty body
AttachBodyAlways(req, method, body) ==
    IF body = EmptyBytes THEN req ELSE WithBody(req, body)

\* proxy_all: if method == GET || body.is_empty() { req } else { req.body(body) }
AttachBody(req, method, body) ==
    IF method = "GET" \/ body = EmptyBytes THEN req ELSE WithBody(req, body)

\* proxy_all, up to send(): the request it sends
ProxyAllRequest(method, path, query, headers, body) ==
    AttachBody(
        ForwardHeaders(ClientRequest(method, ProxyUrl(path, query)), headers),
        method, body)

\* api_login, up to send()
ApiLoginRequest(payload) ==
    WithJson(ClientRequest("POST", backend_base \o "/api/login"), payload)

\* api_analysis_market, up to send()
ApiAnalysisMarketRequest(headers, body) ==
    WithBody(
        ForwardIfPresent(
            ClientRequest("POST", backend_base \o "/api/analysis/market"),
            headers, "content-type"),
        body)

\* ------------------------------------------------------ results and replies

\* Result<T, E>
Ok(v) == [ok |-> TRUE, val |-> <<v>>, err |-> <<>>]
Err(e) == [ok |-> FALSE, val |-> <<>>, err |-> <<e>>]
ValOf(x) == x.val[1]
ErrOf(x) == x.err[1]

\* format!("{:?}", e) of a reqwest::Error
DebugFmt(e) ==
    ((("reqwest::Error { kind: " \o e.kind) \o ", source: ") \o e.source) \o " }"

\* a conversion that answers every status outside 2xx as a gateway error
StatusFromU16Strict(n) == IF n \in 200..299 THEN n ELSE 502

\* StatusCode::from_u16(n).unwrap_or(StatusCode::BAD_GATEWAY)
StatusFromU16(n) == IF n \in 100..999 THEN n ELSE 502

\* (StatusCode, &str).into_response(), (StatusCode, String).into_response():
\* the text as the body, with content-type text/plain
TextResponse(status, text) ==
    [status |-> status,
     headers |-> <<<<"content-type", "text/plain; charset=utf-8">>>>,
     body |-> text]

\* (StatusCode, Bytes).into_response(): the bytes as the body, with
\* content-type application/octet-stream
BytesResponse(status, bytes) ==
    [status |-> status,
     headers |-> <<<<"content-type", "application/octet-stream">>>>,
     body |-> bytes]

\* response.headers_mut().insert(n, v) when the Option v is Some
InsertIfSome(response, n, v) ==
    IF v = <<>> THEN response
    ELSE [response EXCEPT !.headers = HeaderInsert(@, n, v[1])]

\* for sc in values { response.headers_mut().append(n, sc); }
AppendEach(response, n, values) ==
    [response EXCEPT
        !.headers = @ \o [i \in 1..Len(values) |-> <<n, values[i]>>]]

\* proxy_all: the Err arm of match res
ProxyAllError(e) ==
    TextResponse(502,
        <<Raw(("{\"error\":\"backend_error\",\"message\":\"" \o DebugFmt(e))
              \o "\"}")>>)

\* api_login, api_analysis_market: the Err arm of match res
ApiError(e) ==
    TextResponse(502,
        <<Raw(("{\"error\":\"backend_error\",\"message\":" \o DebugFmt(e))
              \o "}")>>)

\* r.bytes().await.unwrap_or_else(|_| fallback)
BytesOr(bytes, fallback) == IF bytes.ok THEN ValOf(bytes) ELSE fallback

\* proxy_all: match res
ProxyAllResponse(result) ==
    IF result.ok
    THEN LET r == ValOf(result)
             status == StatusFromU16(r.status)
             content_type_header == HeaderGet(r.headers, "content-type")
             location_header == HeaderGet(r.headers, "location")
             set_cookie_values == HeaderGetAll(r.headers, "set-cookie")
             body == BytesOr(r.bytes, EmptyBytes)
         IN  AppendEach(
                 InsertIfSome(
                     InsertIfSome(BytesResponse(status, body),
                                  "content-type", content_type_header),
                     "location", location_header),
                 "set-cookie", set_cookie_values)
    ELSE ProxyAllError(ErrOf(result))

\* api_login: match res
ApiLoginResponse(result) ==
    IF result.ok
    THEN LET r == ValOf(result)
             status == StatusFromU16(r.status)
             content_type_header == HeaderGet(r.headers, "content-type")
             body == BytesOr(r.bytes, EmptyObjectBytes)
         IN  InsertIfSome(BytesResponse(status, body),
                          "content-type", content_type_header)
    ELSE ApiError(ErrOf(result))

\* api_analysis_market: match res
ApiAnalysisMarketResponse(result) ==
    IF result.ok
    THEN LET r == ValOf(result)
             status == StatusFromU16(r.status)
             content_type_header == HeaderGet(r.headers, "content-type")
             body == BytesOr(r.bytes, EmptyObjectBytes)
         IN  InsertIfSome(BytesResponse(status, body),
                          "content-type", content_type_header)
    ELSE ApiError(ErrOf(result))

\* health: (StatusCode::OK, "{\"status\":\"ok\"}")
HealthResponse ==
    TextResponse(200, <<Punct("{"), Str("status", "ok"), Punct("}")>>)

\* the Json extractor's rejection
RejectionResponse(status) == TextResponse(status, <<Raw("rejected")>>)

\* the router's answer to a method the path's route does not take
MethodNotAllowedResponse ==
    [status |-> 405, headers |-> NoHeaders, body |-> EmptyBytes]

\* ------------------------------------------------------------------ inputs

Methods == {"GET", "POST", "DELETE", "PURGE"}

Paths == {"/", "/health", "/api/login", "/api/analysis/market", "/api/v1/orders"}

\* uri.query(): None, or the text after '?'
Queries == {<<>>, <<"a=1&b=%20">>}

ContentTypes == {"application/json", "text/plain"}

\* the inbound header maps: any of the four headers the gateway knows and one
\* it does not
OptHeader(present, n, v) == IF present THEN <<<<n, v>>>> ELSE <<>>

InboundHeaderMaps ==
    { (((OptHeader("x-internal-id" \in S, "x-internal-id", "42")
         \o OptHeader("authorization" \in S, "authorization", "Bearer t"))
        \o OptHeader("content-type" \in S, "content-type", ct))
       \o OptHeader("cookie" \in S, "cookie", "sid=1"))
      \o OptHeader("x-csrf-token" \in S, "x-csrf-token", "csrf") :
        S \in SUBSET {"x-internal-id", "authorization", "content-type",
                      "cookie", "x-csrf-token"},
        ct \in ContentTypes }

MemberTokens ==
    {Str("email", "a@b.com"), Num("email", "1"), Str("password", "x"),
     Str("extra", "y")}

MemberSeqs == UNION {[1..k -> MemberTokens] : k \in 0..MaxMembers}

\* the inbound bodies: nothing, text that is no JSON, and JSON objects with
\* or without leading whitespace
Bodies ==
    {EmptyBytes, <<Raw("not json")>>}
    \cup {(<<Punct("{")>> \o ms) \o <<Punct("}")>> : ms \in MemberSeqs}
    \cup {(<<Ws, Punct("{")>> \o ms) \o <<Punct("}")>> : ms \in MemberSeqs}

Requests ==
    [method : Methods, path : Paths, query : Queries,
     headers : InboundHeaderMaps, body : Bodies]

\* one request or more for each handler
CanonicalLogin ==
    <<Punct("{"), Str("email", "a@b.com"), Str("password", "x"), Punct("}")>>

SampleRequests ==
    [method : {"GET", "POST"}, path : Paths, query : {<<>>},
     headers : {NoHeaders, <<<<"content-type", "application/json">>>>},
     body : {EmptyBytes, CanonicalLogin}]

\* the errors of send(), and those of bytes()
SendErrors ==
    {[kind |-> "Request", source |-> "ConnectError"],
     [kind |-> "Request", source |-> "TimedOut"]}

BodyErrors ==
    {[kind |-> "Body", source |-> "TimedOut"],
     [kind |-> "Decode", source |-> "IncompleteMessage"]}

Statuses == {200, 201, 302, 500}

CookieValues == {"sid=1", "theme=dark"}

CookieSeqs == UNION {[1..k -> CookieValues] : k \in 0..MaxCookies}

BackendHeaderMaps ==
    { ((OptHeader(ct, "content-type", "application/json")
        \o OptHeader(other, "x-powered-by", "backend"))
       \o [i \in 1..Len(cs) |-> <<"set-cookie", cs[i]>>])
      \o OptHeader(loc, "location", "/next") :
        ct \in BOOLEAN, other \in BOOLEAN, loc \in BOOLEAN, cs \in CookieSeqs }

BackendBodies == {EmptyBytes, <<Punct("{"), Num("id", "1"), Punct("}")>>}

BackendResponses ==
    [status : Statuses, headers : BackendHeaderMaps,
     bytes : {Ok(b) : b \in BackendBodies} \cup {Err(e) : e \in BodyErrors}]

Results ==
    {Err(e) : e \in SendErrors} \cup {Ok(r) : r \in BackendResponses}

SampleResults ==
    {Err([kind |-> "Request", source |-> "ConnectError"]),
     Ok([status |-> 201,
         headers |-> <<<<"content-type", "application/json">>,
                       <<"set-cookie", "sid=1">>>>,
         bytes |-> Ok(<<Punct("{"), Num("id", "1"), Punct("}")>>)])}

\* ----------------------------------------------------------------- actions

Init ==
    /\ pc = "idle"
    /\ inbound = <<>>
    /\ handler = <<>>
    /\ sent = <<>>
    /\ res = <<>>
    /\ resp = <<>>

\* the listener hands request r to the router
Accept(r) ==
    /\ pc' = "received"
    /\ inbound' = <<r>>
    /\ handler' = <<Route(r.method, r.path)>>
    /\ UNCHANGED <<sent, res, resp>>

Receive ==
    /\ pc = "idle"
    /\ \E r \in Requests : Accept(r)

ReceiveSample ==
    /\ pc = "idle"
    /\ \E r \in SampleRequests : Accept(r)

Handling(h) == pc = "received" /\ handler = <<h>>

Respond(response) ==
    /\ pc' = "done"
    /\ resp' = <<response>>

Send(req) ==
    /\ pc' = "awaiting"
    /\ sent' = Append(sent, req)

MethodNotAllowed ==
    /\ Handling("method_not_allowed")
    /\ Respond(MethodNotAllowedResponse)
    /\ UNCHANGED <<inbound, handler, sent, res>>

health ==
    /\ Handling("health")
    /\ Respond(HealthResponse)
    /\ UNCHANGED <<inbound, handler, sent, res>>

\* api_login is not entered: its Json extractor rejects the request
api_login_rejected ==
    /\ Handling("api_login")
    /\ LET x == JsonExtract(inbound[1].headers, inbound[1].body)
       IN  /\ ~x.ok
           /\ Respond(RejectionResponse(x.status))
    /\ UNCHANGED <<inbound, handler, sent, res>>

api_login ==
    /\ Handling("api_login")
    /\ LET x == JsonExtract(inbound[1].headers, inbound[1].body)
       IN  /\ x.ok
           /\ Send(ApiLoginRequest(x.payload))
    /\ UNCHANGED <<inbound, handler, res, resp>>

api_analysis_market ==
    /\ Handling("api_analysis_market")
    /\ Send(ApiAnalysisMarketRequest(inbound[1].headers, inbound[1].body))
    /\ UNCHANGED <<inbound, handler, res, resp>>

proxy_all ==
    /\ Handling("proxy_all")
    /\ LET r == inbound[1]
       IN  Send(ProxyAllRequest(r.method, r.path, r.query, r.headers, r.body))
    /\ UNCHANGED <<inbound, handler, res, resp>>

\* proxy_all(State(state), method, uri, headers, Bytes::new())
proxy_root_get ==
    /\ Handling("proxy_root_get")
    /\ LET r == inbound[1]
       IN  Send(ProxyAllRequest(r.method, r.path, r.query, r.headers, EmptyBytes))
    /\ UNCHANGED <<inbound, handler, res, resp>>

\* the backend, or the transport to it: send() returns, and bytes() will
Reply(result) ==
    /\ pc' = "replied"
    /\ res' = <<result>>
    /\ UNCHANGED <<inbound, handler, sent, resp>>

BackendReplies ==
    /\ pc = "awaiting"
    /\ \E result \in Results : Reply(result)

BackendRepliesSample ==
    /\ pc = "awaiting"
    /\ \E result \in SampleResults : Reply(result)

Replied(h) == pc = "replied" /\ handler = <<h>>

api_login_translate ==
    /\ Replied("api_login")
    /\ Respond(ApiLoginResponse(res[1]))
    /\ UNCHANGED <<inbound, handler, sent, res>>

api_analysis_market_translate ==
    /\ Replied("api_analysis_market")
    /\ Respond(ApiAnalysisMarketResponse(res[1]))
    /\ UNCHANGED <<inbound, handler, sent, res>>

\* a handler that sends the request once more when send() failed
proxy_all_translate_retrying ==
    /\ pc = "replied"
    /\ handler \in {<<"proxy_all">>, <<"proxy_root_get">>}
    /\ IF ~res[1].ok /\ Len(sent) < 2
       THEN /\ Send(sent[1])
            /\ UNCHANGED <<inbound, handler, res, resp>>
       ELSE /\ Respond(ProxyAllResponse(res[1]))
            /\ UNCHANGED <<inbound, handler, sent, res>>

proxy_all_translate ==
    /\ pc = "replied"
    /\ handler \in {<<"proxy_all">>, <<"proxy_root_get">>}
    /\ Respond(ProxyAllResponse(res[1]))
    /\ UNCHANGED <<inbound, handler, sent, res>>

\* the response is written; the next request is independent of this one
Finish ==
    /\ pc = "done"
    /\ pc' = "idle"
    /\ inbound' = <<>>
    /\ handler' = <<>>
    /\ sent' = <<>>
    /\ res' = <<>>
    /\ resp' = <<>>

Handlers ==
    \/ MethodNotAllowed
    \/ health
    \/ api_login_rejected
    \/ api_login
    \/ api_analysis_market
    \/ proxy_all
    \/ proxy_root_get
    \/ api_login_translate
    \/ api_analysis_market_translate
    \/ proxy_all_translate
    \/ Finish

\* every inbound request, against a backend that fails or answers
Next ==
    \/ Receive
    \/ BackendRepliesSample
    \/ Handlers

Spec == Init /\ [][Next]_vars

\* a request for each handler, against every backend result
NextResponse ==
    \/ ReceiveSample
    \/ BackendReplies
    \/ Handlers

SpecResponse == Init /\ [][NextResponse]_vars

\* ------------------------------------------------------------------ claims

AllowList == {"authorization", "content-type", "cookie", "x-csrf-token"}

GenericHandlers == {<<"proxy_all">>, <<"proxy_root_get">>}

ForwardingHandlers ==
    GenericHandlers \cup {<<"api_login">>, <<"api_analysis_market">>}

\* C1: every header name of a request sent to the backend is one of
\* authorization, content-type, cookie, x-csrf-token, on every route and for
\* every set of inbound headers; an inbound header of another name is not
\* on the request sent.
C1_OnlyAllowListedHeaders ==
    \A i \in 1..Len(sent) :
        /\ HeaderNamesOf(sent[i].headers) \subseteq AllowList
        /\ \A n \in HeaderNamesOf(inbound[1].headers) \ AllowList :
               HeaderGet(sent[i].headers, n) = <<>>

\* a request with x-internal-id and authorization went out with authorization
C1_Witness ==
    /\ Len(sent) = 1
    /\ "x-internal-id" \in HeaderNamesOf(inbound[1].headers)
    /\ HeaderGet(sent[1].headers, "authorization") = <<"Bearer t">>

\* C6: at most one request is sent to the backend for an inbound request:
\* one when a forwarding handler took it (api_login only when its extractor
\* accepted it), none for GET /health and for every request answered without
\* a handler, and none after a failed attempt.
C6_AtMostOneBackendRequest ==
    /\ Len(sent) <= 1
    /\ pc = "done" =>
         LET r == inbound[1]
             forwarded ==
                 \/ handler \in GenericHandlers
                 \/ handler = <<"api_analysis_market">>
                 \/ /\ handler = <<"api_login">>
                    /\ JsonExtract(r.headers, r.body).ok
         IN  /\ forwarded => Len(sent) = 1 /\ res # <<>>
             /\ ~forwarded => Len(sent) = 0 /\ res = <<>>
             /\ handler = <<"health">> => Len(sent) = 0

\* a request whose one attempt failed has been answered
C6_Witness ==
    /\ pc = "done"
    /\ handler = <<"proxy_all">>
    /\ ~res[1].ok
    /\ Len(sent) = 1

\* C7: in proxy_all (root GET included) the request sent has a body exactly
\* when the method is not GET and the inbound body is not empty, and that
\* body is the inbound body.
C7_BodyAttachedUnlessGetOrEmpty ==
    (handler \in GenericHandlers /\ Len(sent) >= 1) =>
        LET r == inbound[1]
            out == sent[1]
        IN  /\ (out.body # <<>>) <=> (r.method # "GET" /\ r.body # EmptyBytes)
            /\ out.body # <<>> => out.body = <<r.body>>

\* a GET with a body went out without one
C7_Witness ==
    /\ handler = <<"proxy_all">>
    /\ Len(sent) = 1
    /\ inbound[1].method = "GET"
    /\ inbound[1].body # EmptyBytes
    /\ sent[1].body = <<>>

\* C10: in proxy_all (root GET included) the URL of the request sent is
\* backend_base, then the inbound path, then "?" and the inbound query as it
\* came when there is one.
C10_UrlIsBasePathQuery ==
    (handler \in GenericHandlers /\ Len(sent) >= 1) =>
        LET r == inbound[1]
            tail == IF r.query = <<>> THEN "" ELSE "?" \o r.query[1]
        IN  sent[1].url = (backend_base \o r.path) \o tail

\* a request with a query went out
C10_Witness ==
    /\ handler = <<"proxy_all">>
    /\ Len(sent) = 1
    /\ inbound[1].query = <<"a=1&b=%20">>
    /\ sent[1].url = "http://127.0.0.1:8009/api/v1/orders?a=1&b=%20"

\* a body that is one JSON object in which email and password each occur
\* once, with a string value
IsLoginJson(body) ==
    LET NotWs(t) == t.tok # "ws"
        t == SelectSeq(body, NotWs)
    IN  /\ Len(t) >= 2
        /\ t[1] = Punct("{")
        /\ t[Len(t)] = Punct("}")
        /\ \A i \in 2..(Len(t) - 1) : t[i].tok \in {"str", "num"}
        /\ \A k \in {"email", "password"} :
               /\ Cardinality({i \in 1..Len(t) : t[i].key = k}) = 1
               /\ \E i \in 1..Len(t) : t[i].key = k /\ t[i].tok = "str"

LoginEntered == handler = <<"api_login">> /\ pc \in {"awaiting", "replied", "done"}

Answered == pc = "done" /\ res # <<>> /\ res[1].ok

Backend == ValOf(res[1])

\* C2 as stated: when the backend response has several Set-Cookie headers,
\* the gateway's response has as many, with the same values in the same
\* order, on every route that forwards to the backend.
C2_SetCookiePreserved ==
    (/\ Answered
     /\ handler \in ForwardingHandlers
     /\ Backend.bytes.ok
     /\ Len(HeaderGetAll(Backend.headers, "set-cookie")) >= 2) =>
        HeaderGetAll(resp[1].headers, "set-cookie")
            = HeaderGetAll(Backend.headers, "set-cookie")

\* C3 as stated: on every forwarding route, when send() fails the response
\* is 502 with the body {"error":"backend_error","message":"<diagnostic>"},
\* the diagnostic between double quotes.
C3_ErrorBodyQuoted ==
    (/\ pc = "done"
     /\ handler \in ForwardingHandlers
     /\ res # <<>>
     /\ ~res[1].ok) =>
        /\ resp[1].status = 502
        /\ resp[1].body =
               <<Raw(("{\"error\":\"backend_error\",\"message\":\""
                      \o DebugFmt(ErrOf(res[1]))) \o "\"}")>>

\* C4 as stated: whenever the call to the backend fails, in send() or while
\* the body is read, the response is 502; a failure after the status and
\* headers were received never yields the backend's status.
C4_EveryTransportFailureIs502 ==
    (/\ pc = "done"
     /\ res # <<>>
     /\ (~res[1].ok \/ ~Backend.bytes.ok)) =>
        resp[1].status = 502

Pairs(h) == {h[i] : i \in 1..Len(h)}

\* C5 as stated: the headers of proxy_all's response to a forwarded request
\* are a subset of the backend's: content-type and location with the
\* backend's value when it sent them, every set-cookie, and no header the
\* backend did not send.
C5_ResponseHeadersAreBackendHeaders ==
    (/\ Answered
     /\ handler \in GenericHandlers
     /\ Backend.bytes.ok) =>
        /\ HeaderGet(Backend.headers, "content-type") # <<>> =>
               HeaderGet(resp[1].headers, "content-type")
                   = HeaderGet(Backend.headers, "content-type")
        /\ HeaderGet(Backend.headers, "location") # <<>> =>
               HeaderGet(resp[1].headers, "location")
                   = HeaderGet(Backend.headers, "location")
        /\ HeaderGetAll(resp[1].headers, "set-cookie")
               = HeaderGetAll(Backend.headers, "set-cookie")
        /\ Pairs(resp[1].headers) \subseteq Pairs(Backend.headers)

\* C8: when the backend's response is received, whatever its status, the
\* gateway's response has that status and that body, on every forwarding
\* route.
C8_StatusAndBodyPassThrough ==
    (/\ Answered
     /\ handler \in ForwardingHandlers
     /\ Backend.bytes.ok) =>
        /\ resp[1].status = Backend.status
        /\ resp[1].body = ValOf(Backend.bytes)

\* a 302 of the backend, with its body, was given to the caller as it came
C8_Witness ==
    /\ Answered
    /\ handler = <<"proxy_all">>
    /\ Backend.status = 302
    /\ Backend.bytes = Ok(<<Punct("{"), Num("id", "1"), Punct("}")>>)
    /\ resp[1].status = 302
    /\ resp[1].body = <<Punct("{"), Num("id", "1"), Punct("}")>>

====
